---- MODULE Spec2Model ----
(***************************************************************************)
(* Model of the bill splitter: the allocator of assignment-1/src/core.ts   *)
(* (splitBill and its helpers) and the file layer of                       *)
(* assignment-2/src/processor.ts (readJsonFile, validateBillInput,         *)
(* processFile, processDirectory).                                         *)
(*                                                                         *)
(* Money is a count of cents (0.01): a price p stands for p/100, and the   *)
(* arithmetic of core.ts is carried out on exact fractions num/den of      *)
(* cents.  Math.round(x) is floor(x + 1/2).                                *)
(*                                                                         *)
(* The code computes in IEEE 754 binary64.  The error of a double is far   *)
(* smaller than a cent, so it changes what Math.round returns only where   *)
(* the decimal operand is an exact half k + 1/2: the double then lies      *)
(* either at or above the half (Math.round gives k + 1, the decimal        *)
(* result) or below it (Math.round gives k).  The variable below records,  *)
(* for one run and for each call of Math.round, whether the operand lies   *)
(* below an exact half.  Spec takes every such outcome; Binary64Spec takes *)
(* the outcomes of runs of the code under binary64.                        *)
(*                                                                         *)
(* Strings are sequences of UTF-16 code units.                             *)
(***************************************************************************)
EXTENDS Integers, Sequences, FiniteSets, TLC

(***************************************************************************)
(* Bounds of the model.                                                    *)
(***************************************************************************)
MaxItems == 3

(***************************************************************************)
(* Strings.                                                                *)
(***************************************************************************)
Str_A == <<65>>
Str_B == <<66>>
Str_AB == <<65, 66>>
Str_Person1 == <<80, 101, 114, 115, 111, 110, 32, 49>>
Str_Person2 == <<80, 101, 114, 115, 111, 110, 32, 50>>
Str_Food == <<70>>
Str_Cafe == <<67, 97, 102, 101>>

CH_DASH == 45
CH_0 == 48
CH_9 == 57
CH_SPACE == 32
CH_YEAR == 24180
CH_MONTH == 26376
CH_DAY == 26085

Min(a, b) == IF a < b THEN a ELSE b

\* a < b for JavaScript strings: comparison by UTF-16 code units, a proper
\* prefix before the longer string
StrLess(a, b) ==
  \E k \in 1..(Min(Len(a), Len(b)) + 1) :
     /\ \A j \in 1..(k - 1) : a[j] = b[j]
     /\ \/ (k = Len(a) + 1 /\ k <= Len(b))
        \/ (k <= Len(a) /\ k <= Len(b) /\ a[k] < b[k])

\* n / d is an exact half k + 1/2 (d > 0)
IsHalf(n, d) == (2 * n + d) % (2 * d) = 0

\* Math.round(n / d) for d > 0: the nearest integer, an exact half towards
\* plus infinity unless the double operand lies below the half
MathRound(n, d, below) ==
  LET up == (2 * n + d) \div (2 * d)
  IN IF below /\ IsHalf(n, d) THEN up - 1 ELSE up

\* Math.round(x * 10) / 10 for x = n/d cents; the result in cents
RoundTenth(n, d, below) == 10 * MathRound(n, 10 * d, below)

RECURSIVE SumPrices(_)
SumPrices(s) == IF s = <<>> THEN 0 ELSE s[1].price + SumPrices(Tail(s))

(***************************************************************************)
(* core.ts                                                                 *)
(***************************************************************************)

NaN == 0 - 1
Str_NaN == <<78, 97, 78>>

\* Number(s) for a string of decimal digits ("" gives 0); any other string
\* of the model is not a number
RECURSIVE ToNumber(_)
ToNumber(s) ==
  IF s = <<>> THEN 0
  ELSE IF \E i \in 1..Len(s) : s[i] \notin CH_0..CH_9 THEN NaN
  ELSE 10 * ToNumber(SubSeq(s, 1, Len(s) - 1)) + (s[Len(s)] - CH_0)

\* `${n}` for a non-negative integer n: decimal digits, no leading zero
RECURSIVE NumToString(_)
NumToString(n) ==
  IF n = NaN THEN Str_NaN
  ELSE IF n < 10 THEN <<CH_0 + n>>
  ELSE Append(NumToString(n \div 10), CH_0 + (n % 10))

\* s.split("-")
RECURSIVE SplitDash(_)
SplitDash(s) ==
  IF \A i \in 1..Len(s) : s[i] # CH_DASH THEN <<s>>
  ELSE LET k == CHOOSE i \in 1..Len(s) :
                  s[i] = CH_DASH /\ \A j \in 1..(i - 1) : s[j] # CH_DASH
       IN <<SubSeq(s, 1, k - 1)>> \o SplitDash(SubSeq(s, k + 1, Len(s)))

\* formatDate without .map(Number): the fields as they are written
formatDate_NoNumber(date) ==
  LET parts == SplitDash(date)
  IN parts[1] \o <<CH_YEAR>> \o parts[2] \o <<CH_MONTH>> \o parts[3] \o <<CH_DAY>>

formatDate(date) ==
  LET parts == SplitDash(date)
      \* a missing part is undefined, and Number(undefined) is NaN
      part(k) == IF k <= Len(parts) THEN ToNumber(parts[k]) ELSE NaN
      year == part(1)
      month == part(2)
      day == part(3)
  IN NumToString(year) \o <<CH_YEAR>> \o NumToString(month) \o <<CH_MONTH>>
       \o NumToString(day) \o <<CH_DAY>>

calculateSubTotal(its) == SumPrices(its)

calculateTip(sub, tipPercentage, below) ==
  RoundTenth(sub * tipPercentage, 100, below)

\* the Set<string> of scanPersons in insertion order
RECURSIVE PersonSet(_)
PersonSet(its) ==
  IF its = <<>> THEN <<>>
  ELSE LET before == PersonSet(SubSeq(its, 1, Len(its) - 1))
           last == its[Len(its)]
       IN IF (~last.isShared) /\ (\A i \in 1..Len(before) : before[i] # last.person)
            THEN Append(before, last.person)
            ELSE before

\* insert x into the ascending sequence s
RECURSIVE InsertSorted(_, _)
InsertSorted(x, s) ==
  IF s = <<>> THEN <<x>>
  ELSE IF StrLess(x, s[1]) THEN <<x>> \o s
  ELSE <<s[1]>> \o InsertSorted(x, Tail(s))

\* Array.from(persons) without .sort()
SortStrings_Unsorted(s) == s

\* Array.prototype.sort() without a comparator
RECURSIVE SortStrings(_)
SortStrings(s) ==
  IF s = <<>> THEN <<>>
  ELSE InsertSorted(s[Len(s)], SortStrings(SubSeq(s, 1, Len(s) - 1)))

\* scanPersons adding the two synthetic persons whenever a Shared item exists
scanPersons_AlwaysFallback(its) ==
  LET persons == PersonSet(its)
      hasSharedItems == \E i \in 1..Len(its) : its[i].isShared
      withFallback == IF hasSharedItems
                        THEN persons \o <<Str_Person1, Str_Person2>>
                        ELSE persons
  IN SortStrings(withFallback)

scanPersons(its) ==
  LET persons == PersonSet(its)
      hasSharedItems == \E i \in 1..Len(its) : its[i].isShared
      withFallback == IF hasSharedItems /\ Len(persons) = 0
                        THEN <<Str_Person1, Str_Person2>>
                        ELSE persons
  IN SortStrings(withFallback)

personalTotalOf(its, name) ==
  SumPrices(SelectSeq(its, LAMBDA it : (~it.isShared) /\ it.person = name))

sharedTotalOf(its) == SumPrices(SelectSeq(its, LAMBDA it : it.isShared))

\* the operand of the rounding of one person's amount in calculateItems, as the
\* fraction num / den of cents
amountNum(its, tipPercentage, persons, name) ==
  (personalTotalOf(its, name) * persons + sharedTotalOf(its)) * (100 + tipPercentage)
amountDen(persons) == 100 * persons

\* below[i]: the rounding of the i-th person's amount
calculateItems(its, tipPercentage, below) ==
  LET names == scanPersons(its)
      persons == Len(names)
  IN [i \in 1..persons |->
        [name |-> names[i],
         amount |-> RoundTenth(amountNum(its, tipPercentage, persons, names[i]),
                               amountDen(persons), below[i])]]

RECURSIVE SumAmounts(_)
SumAmounts(s) == IF s = <<>> THEN 0 ELSE s[1].amount + SumAmounts(Tail(s))

\* the reduction with >= for >: the last of the largest amounts
RECURSIVE MaxIndex_LastWins(_, _)
MaxIndex_LastWins(s, n) ==
  IF n = 1 THEN 1
  ELSE LET m == MaxIndex_LastWins(s, n - 1)
       IN IF s[n].amount >= s[m].amount THEN n ELSE m

\* items.reduce((max, item) => item.amount > max.amount ? item : max):
\* the index of the element the reduction returns
RECURSIVE MaxIndex(_, _)
MaxIndex(s, n) ==
  IF n = 1 THEN 1
  ELSE LET m == MaxIndex(s, n - 1)
       IN IF s[n].amount > s[m].amount THEN n ELSE m

adjustDifference(total, its, below) == RoundTenth(total - SumAmounts(its), 1, below)

\* Math.round((maxItem.amount + difference) * 10) / 10: both are tenths, so
\* the operand is never an exact half
addDifference(amount, difference) == RoundTenth(amount + difference, 1, FALSE)

\* adjustAmount with difference > 0 for difference !== 0
adjustAmount_OnlyPositive(total, its, below) ==
  LET difference == adjustDifference(total, its, below)
  IN IF difference > 0 /\ Len(its) > 0
       THEN LET m == MaxIndex(its, Len(its))
            IN [its EXCEPT ![m].amount = addDifference(its[m].amount, difference)]
       ELSE its

\* adjustAmount adding the difference to every item that has the largest amount
adjustAmount_AllLargest(total, its, below) ==
  LET difference == adjustDifference(total, its, below)
  IN IF difference # 0 /\ Len(its) > 0
       THEN LET m == MaxIndex(its, Len(its))
            IN [i \in 1..Len(its) |->
                  IF its[i].amount = its[m].amount
                    THEN [its[i] EXCEPT !.amount = addDifference(its[i].amount, difference)]
                    ELSE its[i]]
       ELSE its

adjustAmount(total, its, below) ==
  LET difference == adjustDifference(total, its, below)
  IN IF difference # 0 /\ Len(its) > 0
       THEN LET m == MaxIndex(its, Len(its))
            IN [its EXCEPT ![m].amount = addDifference(its[m].amount, difference)]
       ELSE its

\* below: for each call of Math.round of the run, whether its operand lies
\* below an exact half
splitBill(inp, below) ==
  LET sub == calculateSubTotal(inp.items)
      t == calculateTip(sub, inp.tipPercentage, below.tip)
      total == sub + t
  IN [date |-> formatDate(inp.date),
      location |-> inp.location,
      subTotal |-> sub,
      tip |-> t,
      totalAmount |-> total,
      items |-> adjustAmount(total,
                  calculateItems(inp.items, inp.tipPercentage, below.items),
                  below.difference)]

\* the prices of a person's own items, in the order of the bill
personalPrices(its, name) ==
  LET own == SelectSeq(its, LAMBDA it : (~it.isShared) /\ it.person = name)
  IN [k \in 1..Len(own) |-> own[k].price]

\* The outcomes of the roundings of one call of splitBill: an operand lies
\* below an exact half only where the decimal operand is an exact half, and
\* two persons with the same own prices have the same double as operand.
TipOutcomes(inp) ==
  {b \in BOOLEAN : b => IsHalf(calculateSubTotal(inp.items) * inp.tipPercentage, 1000)}

ItemsOutcomes(inp) ==
  LET names == scanPersons(inp.items)
      persons == Len(names)
      half(i) == IsHalf(amountNum(inp.items, inp.tipPercentage, persons, names[i]),
                        10 * amountDen(persons))
  IN {b \in [1..persons -> BOOLEAN] :
        /\ \A i \in 1..persons : b[i] => half(i)
        /\ \A i, j \in 1..persons :
              personalPrices(inp.items, names[i]) = personalPrices(inp.items, names[j])
                 => b[i] = b[j]}

DifferenceOutcomes(inp, tipBelow, itemsBelow) ==
  LET sub == calculateSubTotal(inp.items)
      total == sub + calculateTip(sub, inp.tipPercentage, tipBelow)
      its == calculateItems(inp.items, inp.tipPercentage, itemsBelow)
  IN {b \in BOOLEAN : b => IsHalf(total - SumAmounts(its), 10)}

RoundingOutcomes(inp) ==
  UNION {UNION {{[tip |-> bt, items |-> bi, difference |-> bd] :
                    bd \in DifferenceOutcomes(inp, bt, bi)} :
                 bi \in ItemsOutcomes(inp)} :
         bt \in TipOutcomes(inp)}

(***************************************************************************)
(* processor.ts: the values JSON.parse returns, and their validation.      *)
(* A JSON value carries its typeof in t; a number is a count of cents for  *)
(* a price and a count of percent for tipPercentage.                       *)
(***************************************************************************)
JUndefined == [t |-> "undefined", n |-> 0, s |-> <<>>, b |-> FALSE]
JNull == [t |-> "null", n |-> 0, s |-> <<>>, b |-> FALSE]
JNum(x) == [t |-> "number", n |-> x, s |-> <<>>, b |-> FALSE]
JStr(x) == [t |-> "string", n |-> 0, s |-> x, b |-> FALSE]
JBool(x) == [t |-> "boolean", n |-> 0, s |-> <<>>, b |-> x]

JItem(price, name, isShared, person) ==
  [t |-> "object", price |-> price, name |-> name, isShared |-> isShared,
   person |-> person]
JNotAnItem == [t |-> "null", price |-> JUndefined, name |-> JUndefined,
               isShared |-> JUndefined, person |-> JUndefined]

JArray(elems) == [t |-> "array", elems |-> elems]
JNotAnArray == [t |-> "string", elems |-> <<>>]

JObject(has, d, loc, tipPct, its) ==
  [t |-> "object", has |-> has, date |-> d, location |-> loc,
   tipPercentage |-> tipPct, items |-> its]

RequiredFields == {"date", "location", "tipPercentage", "items"}

MaxTextLength == 100
MaxItemCount == 100
\* 1,000,000 in cents
MaxPriceCents == 100000000
MaxTipPercentage == 100
MinYear == 2000

\* new Date() at the time of the run: year, month, day
Today == <<2025, 6, 15>>

WhiteSpace == {9, 10, 11, 12, 13, 32, 160, 5760, 8232, 8233, 8239, 8287, 12288, 65279}
                 \cup (8192..8202)

\* the code units of < > { } [ ] \
InvalidChars == {60, 62, 123, 125, 91, 93, 92}

\* String.prototype.trim
RECURSIVE TrimStart(_)
TrimStart(str) ==
  IF str # <<>> /\ str[1] \in WhiteSpace THEN TrimStart(Tail(str)) ELSE str
RECURSIVE TrimEnd(_)
TrimEnd(str) ==
  IF str # <<>> /\ str[Len(str)] \in WhiteSpace
    THEN TrimEnd(SubSeq(str, 1, Len(str) - 1))
    ELSE str
Trim(str) == TrimEnd(TrimStart(str))

HasInvalidChar(str) == \E i \in 1..Len(str) : str[i] \in InvalidChars

\* /^\d{4}-\d{2}-\d{2}$/.test(date)
MatchesDateRegex(d) ==
  /\ Len(d) = 10
  /\ \A i \in {1, 2, 3, 4, 6, 7, 9, 10} : d[i] \in CH_0..CH_9
  /\ d[5] = CH_DASH
  /\ d[8] = CH_DASH

IsLeapYear(y) == (y % 4 = 0 /\ y % 100 # 0) \/ y % 400 = 0

DaysInMonth(y, m) ==
  IF m = 2 THEN (IF IsLeapYear(y) THEN 29 ELSE 28)
  ELSE IF m \in {4, 6, 9, 11} THEN 30 ELSE 31

\* a < b for two <<year, month, day>>
DateBefore(a, b) ==
  \/ a[1] < b[1]
  \/ (a[1] = b[1] /\ a[2] < b[2])
  \/ (a[1] = b[1] /\ a[2] = b[2] /\ a[3] < b[3])

\* the validators return "ok" or the message of the ProcessorError thrown
validateDateFormat(d) ==
  IF ~MatchesDateRegex(d) THEN "Invalid date format"
  ELSE LET parts == SplitDash(d)
           year == ToNumber(parts[1])
           month == ToNumber(parts[2])
           day == ToNumber(parts[3])
       IN \* new Date(year, month - 1, day) gives back year, month and day
          \* only for a day of the calendar (a year below 100 becomes 19xx)
          IF ~(year >= 100 /\ month \in 1..12 /\ day \in 1..DaysInMonth(year, month))
            THEN "Invalid date"
          ELSE IF DateBefore(<<year, month, day>>, <<MinYear, 1, 1>>)
                    \/ DateBefore(Today, <<year, month, day>>)
            THEN "Date is out of valid range"
          ELSE "ok"

validateLocation(loc) ==
  LET trimmedLocation == Trim(loc)
  IN IF Len(trimmedLocation) = 0 THEN "Location cannot be empty"
     ELSE IF Len(trimmedLocation) > MaxTextLength THEN "Location name is too long"
     ELSE IF HasInvalidChar(trimmedLocation) THEN "Location contains invalid characters"
     ELSE "ok"

validateTipPercentage(tipPct) ==
  IF tipPct.t # "number" THEN "Tip percentage must be a valid number"
  ELSE IF tipPct.n < 0 THEN "Tip percentage cannot be negative"
  ELSE IF tipPct.n > MaxTipPercentage THEN "Tip percentage is too high"
  ELSE "ok"

validateBillItem(item) ==
  IF item.t # "object" THEN "Item is not an object"
  ELSE IF item.price.t # "number" THEN "Invalid price type"
  ELSE IF item.price.n < 0 THEN "Price cannot be negative"
  ELSE IF item.price.n > MaxPriceCents THEN "Price is unreasonably high"
  ELSE IF item.name.t # "string" \/ Len(Trim(item.name.s)) = 0
    THEN "Invalid or empty name"
  ELSE IF Len(item.name.s) > MaxTextLength THEN "Item name is too long"
  ELSE IF item.isShared.t # "boolean" THEN "Missing or invalid isShared field"
  ELSE IF ~item.isShared.b
    THEN IF item.person.t # "string" \/ item.person.s = <<>>
           THEN "Missing person field"
         ELSE IF Len(Trim(item.person.s)) = 0 THEN "Empty person name"
         ELSE IF Len(Trim(item.person.s)) > MaxTextLength THEN "Person name is too long"
         ELSE IF HasInvalidChar(Trim(item.person.s))
           THEN "Person name contains invalid characters"
         ELSE "ok"
  ELSE "ok"

\* data.items.forEach(validateBillItem): the first error thrown
RECURSIVE validateEachItem(_)
validateEachItem(elems) ==
  IF elems = <<>> THEN "ok"
  ELSE LET r == validateBillItem(elems[1])
       IN IF r # "ok" THEN r ELSE validateEachItem(Tail(elems))

\* the checks on data.items without the one for an empty array
validateItemList_AllowEmpty(its) ==
  IF its.t # "array" THEN "items must be an array"
  ELSE IF Len(its.elems) > MaxItemCount THEN "too many items"
  ELSE validateEachItem(its.elems)

\* the checks of validateBillInput on data.items
validateItemList(its) ==
  IF its.t # "array" THEN "items must be an array"
  ELSE IF Len(its.elems) = 0 THEN "items array cannot be empty"
  ELSE IF Len(its.elems) > MaxItemCount THEN "too many items"
  ELSE validateEachItem(its.elems)

validateBillInput(data) ==
  IF data.t # "object" THEN "Data must be an object"
  ELSE IF RequiredFields \ data.has # {} THEN "Missing required fields"
  ELSE IF data.date.t # "string" THEN "date must be a string"
  ELSE IF validateDateFormat(data.date.s) # "ok" THEN validateDateFormat(data.date.s)
  ELSE IF data.location.t # "string" THEN "location must be a string"
  ELSE IF validateLocation(data.location.s) # "ok" THEN validateLocation(data.location.s)
  ELSE IF data.tipPercentage.t # "number" THEN "tipPercentage must be a number"
  ELSE IF validateTipPercentage(data.tipPercentage) # "ok"
    THEN validateTipPercentage(data.tipPercentage)
  ELSE validateItemList(data.items)

\* data as the BillInput validateBillInput asserts it to be
AsBillInput(data) ==
  [date |-> data.date.s,
   location |-> data.location.s,
   tipPercentage |-> data.tipPercentage.n,
   items |-> [i \in 1..Len(data.items.elems) |->
                [price |-> data.items.elems[i].price.n,
                 name |-> data.items.elems[i].name.s,
                 isShared |-> data.items.elems[i].isShared.b,
                 person |-> data.items.elems[i].person.s]]]

(***************************************************************************)
(* processor.ts: errors.                                                   *)
(***************************************************************************)
ProcessorError(type) == [processorError |-> TRUE, type |-> type, message |-> ""]
SystemError(message) == [processorError |-> FALSE, type |-> "", message |-> message]

\* handleError: a ProcessorError is returned as it is, any other error is
\* classified by its lower-cased message
handleError(error) ==
  IF error.processorError THEN error
  ELSE IF error.message \in {"no such file or directory", "file not found"}
    THEN ProcessorError("FILE_NOT_FOUND")
  ELSE IF error.message = "permission denied" THEN ProcessorError("PERMISSION_DENIED")
  ELSE IF error.message \in {"invalid json", "syntax error"}
    THEN ProcessorError("INVALID_JSON")
  ELSE IF error.message = "invalid format" THEN ProcessorError("INVALID_FORMAT")
  ELSE IF error.message = "no space" THEN ProcessorError("NO_SPACE")
  ELSE IF error.message \in {"invalid path", "illegal operation"}
    THEN ProcessorError("INVALID_PATH")
  ELSE ProcessorError("UNKNOWN")

\* the catch of readJsonFile for an error of fsPromises.access or readFile
readErrorOf(code) ==
  IF code = "ENOENT" THEN ProcessorError("FILE_NOT_FOUND")
  ELSE IF code = "EACCES" THEN ProcessorError("PERMISSION_DENIED")
  ELSE ProcessorError("UNKNOWN")

\* the catch of writeOutputFile for an error of mkdir or writeFile
writeErrorOf(code) ==
  IF code = "ENOSPC" THEN ProcessorError("NO_SPACE")
  ELSE IF code = "EACCES" THEN ProcessorError("PERMISSION_DENIED")
  ELSE ProcessorError("UNKNOWN")

\* readJsonFile returning data whatever validateBillInput throws
parseAndValidate_IgnoreValidation(text) ==
  IF ~text.parses
    THEN [ok |-> FALSE, error |-> ProcessorError("INVALID_JSON")]
  ELSE [ok |-> TRUE, error |-> ProcessorError("")]

\* readJsonFile once the content is read: JSON.parse, validateBillInput,
\* return data; the error is the ProcessorError thrown instead
parseAndValidate(text) ==
  IF ~text.parses
    THEN [ok |-> FALSE, error |-> ProcessorError("INVALID_JSON")]
  ELSE IF validateBillInput(text.data) # "ok"
    THEN [ok |-> FALSE, error |-> ProcessorError("INVALID_FORMAT")]
  ELSE [ok |-> TRUE, error |-> ProcessorError("")]

(***************************************************************************)
(* One call of splitBill, statement by statement.                          *)
(***************************************************************************)
VARIABLES
  input,        \* the BillInput passed to splitBill
  below,        \* per call of Math.round: the double operand lies below a half
  pc,           \* the statement of splitBill reached
  date,         \* let date
  location,     \* let location
  subTotal,     \* let subTotal
  tip,          \* let tip
  totalAmount,  \* let totalAmount
  items,        \* let items, mutated in place by adjustAmount
  output,       \* the returned BillOutput
  mode,         \* main: "file" runs processFile, "directory" processDirectory
  format,       \* BillProcessor.format
  files,        \* the input file, or the listing fsPromises.readdir gives
  ppc,          \* the await processFile or processDirectory has reached
  jsonFiles,    \* processDirectory: the indexes in files of the .json files
  tasks,        \* one record per file being processed
  outFiles,     \* per task, what fsPromises.writeFile has written
  results       \* what processFile or processDirectory returns

coreVars == <<input, below, pc, date, location, subTotal, tip, totalAmount, items, output>>

procVars == <<mode, format, files, ppc, jsonFiles, tasks, outFiles, results>>

vars == <<coreVars, procVars>>

Prices == {4, 5, 1000}
TipPercentages == {0, 10, 25, 100}
PersonNames == {Str_A, Str_B, Str_AB}

Date_2024_03_21 == <<50, 48, 50, 52, 45, 48, 51, 45, 50, 49>>
Date_2024_01_05 == <<50, 48, 50, 52, 45, 48, 49, 45, 48, 53>>
Date_2000_12_31 == <<50, 48, 48, 48, 45, 49, 50, 45, 51, 49>>
Date_2023_10_09 == <<50, 48, 50, 51, 45, 49, 48, 45, 48, 57>>
Date_0999_09_10 == <<48, 57, 57, 57, 45, 48, 57, 45, 49, 48>>
Dates == {Date_2024_03_21, Date_2024_01_05, Date_2000_12_31, Date_2023_10_09,
          Date_0999_09_10}

SharedItem(p) == [price |-> p, name |-> Str_Food, isShared |-> TRUE, person |-> <<>>]
PersonalItem(p, who) == [price |-> p, name |-> Str_Food, isShared |-> FALSE, person |-> who]

BillItems == {SharedItem(p) : p \in Prices}
               \cup {PersonalItem(p, who) : p \in Prices, who \in PersonNames}

ItemLists == UNION {[1..n -> BillItems] : n \in 1..MaxItems}

BillInputOf(d, t, its) ==
  [date |-> d, location |-> Str_Cafe, tipPercentage |-> t, items |-> its]

\* the bills splitBill is called with: every item list under one date, and
\* every date with one bill
Inputs == {BillInputOf(Date_2024_03_21, t, its) : t \in TipPercentages, its \in ItemLists}
            \cup {BillInputOf(d, 10, <<SharedItem(1000)>>) : d \in Dates}

NoneBelow == [tip |-> FALSE, items |-> <<>>, difference |-> FALSE]

NoOutput == [date |-> <<>>, location |-> <<>>, subTotal |-> 0, tip |-> 0,
             totalAmount |-> 0, items |-> <<>>]

CoreIdle ==
  /\ date = <<>>
  /\ location = <<>>
  /\ subTotal = 0
  /\ tip = 0
  /\ totalAmount = 0
  /\ items = <<>>
  /\ output = NoOutput

ProcIdle ==
  /\ mode = "none"
  /\ format = "json"
  /\ files = <<>>
  /\ ppc = "idle"
  /\ jsonFiles = <<>>
  /\ tasks = <<>>
  /\ outFiles = <<>>
  /\ results = <<>>

Init ==
  /\ input \in Inputs
  /\ below \in RoundingOutcomes(input)
  /\ pc = "formatDate"
  /\ CoreIdle
  /\ ProcIdle

\* let date = formatDate(input.date); let location = input.location
FormatDate ==
  /\ pc = "formatDate"
  /\ date' = formatDate(input.date)
  /\ location' = input.location
  /\ pc' = "calculateSubTotal"
  /\ UNCHANGED <<input, below, subTotal, tip, totalAmount, items, output>>
  /\ UNCHANGED procVars

\* let subTotal = calculateSubTotal(input.items)
CalculateSubTotal ==
  /\ pc = "calculateSubTotal"
  /\ subTotal' = calculateSubTotal(input.items)
  /\ pc' = "calculateTip"
  /\ UNCHANGED <<input, below, date, location, tip, totalAmount, items, output>>
  /\ UNCHANGED procVars

\* let tip = calculateTip(subTotal, input.tipPercentage);
\* let totalAmount = subTotal + tip
CalculateTip ==
  /\ pc = "calculateTip"
  /\ tip' = calculateTip(subTotal, input.tipPercentage, below.tip)
  /\ totalAmount' = subTotal + tip'
  /\ pc' = "calculateItems"
  /\ UNCHANGED <<input, below, date, location, subTotal, items, output>>
  /\ UNCHANGED procVars

\* let items = calculateItems(input.items, input.tipPercentage)
CalculateItems ==
  /\ pc = "calculateItems"
  /\ items' = calculateItems(input.items, input.tipPercentage, below.items)
  /\ pc' = "adjustAmount"
  /\ UNCHANGED <<input, below, date, location, subTotal, tip, totalAmount, output>>
  /\ UNCHANGED procVars

\* adjustAmount(totalAmount, items)
AdjustAmount ==
  /\ pc = "adjustAmount"
  /\ items' = adjustAmount(totalAmount, items, below.difference)
  /\ pc' = "return"
  /\ UNCHANGED <<input, below, date, location, subTotal, tip, totalAmount, output>>
  /\ UNCHANGED procVars

\* return { date, location, subTotal, tip, totalAmount, items }
Return ==
  /\ pc = "return"
  /\ output' = [date |-> date, location |-> location, subTotal |-> subTotal,
                tip |-> tip, totalAmount |-> totalAmount, items |-> items]
  /\ pc' = "done"
  /\ UNCHANGED <<input, below, date, location, subTotal, tip, totalAmount, items>>
  /\ UNCHANGED procVars

Next ==
  \/ FormatDate
  \/ CalculateSubTotal
  \/ CalculateTip
  \/ CalculateItems
  \/ AdjustAmount
  \/ Return

Spec == Init /\ [][Next]_vars

(***************************************************************************)
(* Runs of splitBill under IEEE 754 binary64.  Each row is a bill and, for *)
(* that bill, the calls of Math.round whose double operand lies below an   *)
(* exact half: calculateTip's, calculateItems' per participant, and        *)
(* adjustAmount's difference.  In the first row subTotal is 0.05 + 10 and  *)
(* the tip 10.1; totalAmount - currentTotal is 20.15 - 20.1, and           *)
(* (20.15 - 20.1) * 10 is the double 0.4999999999999716.                   *)
(***************************************************************************)
Run(its, t, tipBelow, itemsBelow, differenceBelow) ==
  [input |-> BillInputOf(Date_2024_03_21, t, its),
   below |-> [tip |-> tipBelow, items |-> itemsBelow, difference |-> differenceBelow]]

Binary64Runs ==
  {
    Run(<<SharedItem(5), PersonalItem(1000, Str_A)>>, 100, FALSE, <<FALSE>>, TRUE),
    Run(<<PersonalItem(140, Str_A)>>, 75, TRUE, <<TRUE>>, FALSE),
    Run(<<SharedItem(1000)>>, 10, FALSE, <<FALSE, FALSE>>, FALSE),
    Run(<<PersonalItem(5, Str_A)>>, 0, FALSE, <<FALSE>>, FALSE),
    Run(<<PersonalItem(1000, Str_B), PersonalItem(140, Str_A)>>, 75, FALSE, <<TRUE, FALSE>>, FALSE),
    Run(<<SharedItem(1000), PersonalItem(140, Str_A)>>, 10, FALSE, <<FALSE>>, FALSE),
    Run(<<PersonalItem(5, Str_B), PersonalItem(1000, Str_B)>>, 0, FALSE, <<FALSE>>, FALSE),
    Run(<<SharedItem(140), PersonalItem(5, Str_B)>>, 10, FALSE, <<FALSE>>, TRUE),
    Run(<<PersonalItem(5, Str_A), SharedItem(140)>>, 100, FALSE, <<FALSE>>, FALSE),
    Run(<<SharedItem(140), PersonalItem(140, Str_A)>>, 100, FALSE, <<FALSE>>, FALSE),
    Run(<<PersonalItem(1000, Str_A), PersonalItem(5, Str_A)>>, 75, FALSE, <<FALSE>>, TRUE),
    Run(<<SharedItem(140), SharedItem(1000)>>, 0, FALSE, <<FALSE, FALSE>>, FALSE),
    Run(<<SharedItem(140), SharedItem(1000)>>, 100, FALSE, <<FALSE, FALSE>>, FALSE),
    Run(<<SharedItem(1000), PersonalItem(5, Str_B)>>, 10, FALSE, <<FALSE>>, FALSE),
    Run(<<SharedItem(1000), PersonalItem(1000, Str_B)>>, 75, FALSE, <<FALSE>>, FALSE),
    Run(<<PersonalItem(1000, Str_B)>>, 75, FALSE, <<FALSE>>, FALSE),
    Run(<<SharedItem(5)>>, 75, FALSE, <<FALSE, FALSE>>, FALSE),
    Run(<<SharedItem(5), PersonalItem(140, Str_A)>>, 75, FALSE, <<FALSE>>, TRUE),
    Run(<<SharedItem(5), PersonalItem(140, Str_A)>>, 0, FALSE, <<FALSE>>, TRUE),
    Run(<<PersonalItem(5, Str_A), PersonalItem(140, Str_A)>>, 75, FALSE, <<FALSE>>, TRUE),
    Run(<<PersonalItem(140, Str_B), PersonalItem(5, Str_A)>>, 75, FALSE, <<FALSE, TRUE>>, TRUE),
    Run(<<PersonalItem(5, Str_A), PersonalItem(140, Str_B)>>, 75, FALSE, <<FALSE, TRUE>>, TRUE),
    Run(<<SharedItem(140), SharedItem(140)>>, 75, FALSE, <<TRUE, TRUE>>, FALSE),
    Run(<<SharedItem(140)>>, 75, TRUE, <<FALSE, FALSE>>, FALSE),
    Run(<<PersonalItem(140, Str_B)>>, 75, TRUE, <<TRUE>>, FALSE),
    Run(<<PersonalItem(140, Str_A), PersonalItem(140, Str_B)>>, 75, FALSE, <<TRUE, TRUE>>, FALSE),
    Run(<<SharedItem(20), SharedItem(5), SharedItem(10)>>, 0, FALSE, <<FALSE, FALSE>>, TRUE),
    Run(<<SharedItem(5), SharedItem(10), SharedItem(20)>>, 0, FALSE, <<FALSE, FALSE>>, FALSE),
    Run(<<SharedItem(140), SharedItem(10), SharedItem(5)>>, 100, FALSE, <<FALSE, FALSE>>, FALSE),
    Run(<<SharedItem(5), SharedItem(10), SharedItem(140)>>, 100, TRUE, <<TRUE, TRUE>>, TRUE),
    Run(<<PersonalItem(4, Str_A), PersonalItem(4, Str_B), PersonalItem(4, Str_AB)>>, 25,
        FALSE, <<FALSE, FALSE, FALSE>>, FALSE),
    Run(<<SharedItem(375)>>, 36, TRUE, <<FALSE, FALSE>>, TRUE) }

Binary64Init ==
  /\ \E r \in Binary64Runs : input = r.input /\ below = r.below
  /\ pc = "formatDate"
  /\ CoreIdle
  /\ ProcIdle

Binary64Spec == Binary64Init /\ [][Next]_vars

(***************************************************************************)
(* Properties of splitBill.                                                *)
(***************************************************************************)
Adjusted == pc \in {"return", "done"}

\* calculateItems' result for the call in progress, before adjustAmount
PreItems == calculateItems(input.items, input.tipPercentage, below.items)

NamesOf(its) == [i \in 1..Len(its) |-> its[i].name]

\* no rounding of the call in progress meets an exact half, so the call
\* has one outcome only
NoHalf == Cardinality(RoundingOutcomes(input)) = 1

\* r is x rounded to one decimal place (a multiple of 10 cents nearest to x
\* cents, a half going up)
IsRoundedToTenth(r, x) == r % 10 = 0 /\ r - 5 <= x /\ x < r + 5

\* C1: after adjustAmount has run, the amounts of the PersonAmount entries
\* sum to subTotal + tip rounded to one decimal place.
C1_SumIsRoundedTotal ==
  Adjusted => IsRoundedToTenth(SumAmounts(items), subTotal + tip)

\* C2 as stated: the returned amounts sum exactly to the returned
\* totalAmount, whatever subTotal is.
C2_SumIsTotalAmount ==
  pc = "done" => SumAmounts(output.items) = output.totalAmount

\* C2 amended: the returned amounts sum exactly to totalAmount when subTotal
\* is a multiple of 0.1, and are within 0.05 of it otherwise.
C2_SumIsTotalAmountUpToRounding ==
  pc = "done" =>
     LET s == SumAmounts(output.items)
     IN /\ output.subTotal % 10 = 0 => s = output.totalAmount
        /\ s - output.totalAmount <= 5
        /\ output.totalAmount - s <= 5

\* reached: a returned bill whose subTotal is no multiple of 0.1 and one
\* whose amounts adjustAmount changed
C2_Witness ==
  /\ pc = "done"
  /\ NoHalf
  /\ output.subTotal % 10 # 0
  /\ output.items # PreItems

HasShared(its) == \E i \in 1..Len(its) : its[i].isShared
HasPersonal(its) == \E i \in 1..Len(its) : ~its[i].isShared
PersonsOf(its) == {its[i].person : i \in {j \in 1..Len(its) : ~its[j].isShared}}

\* C3: a bill of Shared items only has exactly the participants "Person 1",
\* "Person 2"; a bill with a Personal item has exactly the distinct persons
\* of its Personal items, none added.
C3_Participants ==
  pc \in {"adjustAmount", "return", "done"} =>
     /\ (HasShared(input.items) /\ ~HasPersonal(input.items))
           => NamesOf(items) = <<Str_Person1, Str_Person2>>
     /\ HasPersonal(input.items)
           => /\ {items[i].name : i \in 1..Len(items)} = PersonsOf(input.items)
              /\ Len(items) = Cardinality(PersonsOf(input.items))

\* reached: a bill of Shared items only, returned with the two synthetic
\* participants
C3_Witness ==
  /\ pc = "done"
  /\ NoHalf
  /\ ~HasPersonal(input.items)
  /\ Len(input.items) >= 2
  /\ NamesOf(output.items) = <<Str_Person1, Str_Person2>>

\* C4: the names of the output items are in strictly ascending order, and
\* adjustAmount leaves the order calculateItems produced.
C4_NamesAscending ==
  /\ pc \in {"adjustAmount", "return", "done"} =>
        \A i, j \in 1..Len(items) : i < j => StrLess(items[i].name, items[j].name)
  /\ Adjusted => NamesOf(items) = NamesOf(PreItems)
  /\ pc = "done" => output.items = items

\* reached: persons given out of order and more than once, and an amount
\* changed by adjustAmount
C4_Witness ==
  /\ pc = "done"
  /\ NoHalf
  /\ Len(input.items) = 3
  /\ \A i \in 1..3 : ~input.items[i].isShared
  /\ input.items[1].person = Str_B
  /\ input.items[2].person = Str_A
  /\ input.items[3].person = Str_B
  /\ output.items # PreItems
  /\ NamesOf(output.items) = <<Str_A, Str_B>>

\* C5: the tip is subTotal * tipPercentage / 100 rounded to the nearest 0.1,
\* a half going away from zero; it is a non-negative multiple of 0.1, and 0
\* with totalAmount = subTotal when tipPercentage is 0.
C5_Tip ==
  pc \in {"calculateItems", "adjustAmount", "return", "done"} =>
     LET x == subTotal * input.tipPercentage
     IN /\ tip % 10 = 0
        /\ tip >= 0
        /\ 100 * tip - 500 <= x
        /\ x < 100 * tip + 500
        /\ input.tipPercentage = 0 => (tip = 0 /\ totalAmount = subTotal)

\* the decimal digits of a string, read as a number, and the shape of a number
\* printed without padding
IsDigits(str) == Len(str) >= 1 /\ \A i \in 1..Len(str) : str[i] \in CH_0..CH_9
NoLeadingZero(str) == Len(str) = 1 \/ str[1] # CH_0
IndexOf(str, ch) == CHOOSE i \in 1..Len(str) : str[i] = ch

\* C8: formatDate turns YYYY-MM-DD into <year>年<month>月<day>日, the three
\* numbers being the numeric values of the three fields, written without a
\* leading zero.
C8_FormatDate ==
  pc # "formatDate" =>
     /\ Len(SelectSeq(date, LAMBDA c : c \in {CH_YEAR, CH_MONTH, CH_DAY})) = 3
     /\ LET iy == IndexOf(date, CH_YEAR)
            im == IndexOf(date, CH_MONTH)
            id == IndexOf(date, CH_DAY)
            y == SubSeq(date, 1, iy - 1)
            m == SubSeq(date, iy + 1, im - 1)
            d == SubSeq(date, im + 1, id - 1)
        IN /\ iy < im /\ im < id /\ id = Len(date)
           /\ IsDigits(y) /\ IsDigits(m) /\ IsDigits(d)
           /\ NoLeadingZero(y) /\ NoLeadingZero(m) /\ NoLeadingZero(d)
           /\ ToNumber(y) = ToNumber(SubSeq(input.date, 1, 4))
           /\ ToNumber(m) = ToNumber(SubSeq(input.date, 6, 7))
           /\ ToNumber(d) = ToNumber(SubSeq(input.date, 9, 10))

\* reached: 2024-01-05 returned as 2024年1月5日
C8_Witness ==
  /\ pc = "done"
  /\ input.date = Date_2024_01_05
  /\ output.date = <<50, 48, 50, 52, CH_YEAR, 49, CH_MONTH, 53, CH_DAY>>

\* the amount calculateItems gives participant name: a multiple of 0.1
\* nearest to (personalTotal + sharedTotal / count) * (1 + tipPercentage/100)
IsIndependentAmount(a, name) ==
  LET n == Len(PreItems)
      raw == (personalTotalOf(input.items, name) * n + sharedTotalOf(input.items))
               * (100 + input.tipPercentage)
  IN /\ a % 10 = 0
     /\ (a - 5) * 100 * n <= raw
     /\ raw <= (a + 5) * 100 * n

\* const difference of adjustAmount, for the call in progress
Difference == adjustDifference(totalAmount, PreItems, below.difference)

ChangedByAdjust == {i \in 1..Len(items) : items[i] # PreItems[i]}

\* C9: adjustAmount changes the amount of at most one participant; every
\* other participant keeps the independently rounded amount of
\* calculateItems, and nothing changes when the rounded difference is 0.
C9_AtMostOneChanged ==
  Adjusted =>
     /\ Len(items) = Len(PreItems)
     /\ Cardinality(ChangedByAdjust) <= 1
     /\ \A i \in 1..Len(items) :
           i \notin ChangedByAdjust
              => IsIndependentAmount(items[i].amount, items[i].name)
     /\ Difference = 0 => items = PreItems

\* reached: three participants, one of them changed by adjustAmount
C9_Witness ==
  /\ pc = "done"
  /\ NoHalf
  /\ Len(output.items) = 3
  /\ Difference # 0
  /\ Cardinality(ChangedByAdjust) = 1

\* C10: when the rounded difference is not 0, the participant adjustAmount
\* changes has the largest amount before the adjustment and is the first of
\* those tied for it.
C10_FirstLargestAdjusted ==
  (Adjusted /\ Difference # 0) =>
     \E m \in 1..Len(items) :
        /\ ChangedByAdjust = {m}
        /\ items[m].name = PreItems[m].name
        /\ \A j \in 1..Len(items) : PreItems[j].amount <= PreItems[m].amount
        /\ \A j \in 1..(m - 1) : PreItems[j].amount < PreItems[m].amount

\* reached: the largest amount is held by the second and the third
\* participant, and the second is the one changed
C10_Witness ==
  /\ pc = "done"
  /\ NoHalf
  /\ Len(output.items) = 3
  /\ PreItems[1].amount < PreItems[2].amount
  /\ PreItems[2].amount = PreItems[3].amount
  /\ Difference # 0
  /\ ChangedByAdjust = {2}

\* n / d cents rounded to the nearest 0.1, an exact half away from zero; the
\* result in cents (d > 0)
RoundHalfAwayFromZero(n, d) ==
  IF n >= 0 THEN 10 * ((2 * n + 10 * d) \div (20 * d))
  ELSE 0 - 10 * ((2 * (0 - n) + 10 * d) \div (20 * d))

\* C11: every money rounding of splitBill - the tip, each per-person amount
\* and the reconciliation difference totalAmount - sum(amounts), which can
\* be negative - is to the nearest 0.1 with an exact half away from zero.
C11_HalvesAwayFromZero ==
  /\ pc \in {"calculateItems", "adjustAmount", "return", "done"} =>
        tip = RoundHalfAwayFromZero(subTotal * input.tipPercentage, 100)
  /\ pc \in {"adjustAmount", "return", "done"} =>
        \A i \in 1..Len(PreItems) :
           PreItems[i].amount =
              RoundHalfAwayFromZero(
                 amountNum(input.items, input.tipPercentage, Len(PreItems),
                           PreItems[i].name),
                 amountDen(Len(PreItems)))
  /\ Adjusted =>
        Difference = RoundHalfAwayFromZero(totalAmount - SumAmounts(PreItems), 1)

\* b holds the elements of a in another order
IsPermutation(a, b) ==
  /\ Len(a) = Len(b)
  /\ \E f \in [1..Len(a) -> 1..Len(a)] :
        /\ \A i, j \in 1..Len(a) : f[i] = f[j] => i = j
        /\ \A i \in 1..Len(a) : a[i] = b[f[i]]

\* C12: the output of splitBill does not depend on the order of the input
\* items: a run on the same date, location, tipPercentage and a permutation
\* of the items returns the same subTotal, tip, totalAmount and list of
\* PersonAmount entries.
C12_OrderIndependent ==
  pc = "done" =>
     \A r \in Binary64Runs :
        (/\ r.input.date = input.date
         /\ r.input.location = input.location
         /\ r.input.tipPercentage = input.tipPercentage
         /\ IsPermutation(r.input.items, input.items))
           => splitBill(r.input, r.below) = output

\* C14: for every valid input every amount of the output of splitBill is
\* >= 0, also that of the participant whose amount adjustAmount lowers.
C14_AmountsNonNegative ==
  pc = "done" => \A i \in 1..Len(output.items) : output.items[i].amount >= 0

\* C15: for a bill of Shared items only, the two synthetic participants
\* have equal amounts before the reconciliation and final amounts at most
\* 0.1 apart: the difference is -0.1, 0 or 0.1 and, when it is not 0, it is
\* applied to "Person 1".
C15_SharedOnly ==
  (Adjusted /\ HasShared(input.items) /\ ~HasPersonal(input.items)) =>
     /\ Len(items) = 2
     /\ PreItems[1].amount = PreItems[2].amount
     /\ items[1].amount - items[2].amount \in {0 - 10, 0, 10}
     /\ Difference \in {0 - 10, 0, 10}
     /\ Difference # 0 => (ChangedByAdjust = {1} /\ items[1].name = Str_Person1)

(***************************************************************************)
(* processFile and processDirectory.  Each await is one step; what runs    *)
(* between two awaits of a task runs in that step.                         *)
(***************************************************************************)
MaxFiles == 2

Str_Empty == <<>>
Str_Blank == <<CH_SPACE, CH_SPACE>>
Str_Angle == <<65, 60>>
Str_Long == [i \in 1..(MaxTextLength + 1) |-> 65]
Date_2024_1_05 == <<50, 48, 50, 52, 45, 49, 45, 48, 53>>
Date_2024_02_30 == <<50, 48, 50, 52, 45, 48, 50, 45, 51, 48>>
Date_1999_12_31 == <<49, 57, 57, 57, 45, 49, 50, 45, 51, 49>>
Date_2030_01_01 == <<50, 48, 51, 48, 45, 48, 49, 45, 48, 49>>

JShared(p) == JItem(JNum(p), JStr(Str_Food), JBool(TRUE), JUndefined)
JPersonal(p, who) == JItem(JNum(p), JStr(Str_Food), JBool(FALSE), JStr(who))

JBill(d, tipPct, elems) ==
  JObject(RequiredFields, JStr(d), JStr(Str_Cafe), JNum(tipPct), JArray(elems))

\* bills validateBillInput accepts
SharedOnlyBill == JBill(Date_2024_03_21, 10, <<JShared(3000)>>)
PersonalBill == JBill(Date_2024_01_05, 20, <<JPersonal(10000, Str_A)>>)
MixedBill == JBill(Date_2000_12_31, 25,
                   <<JPersonal(5, Str_B), JShared(1000), JPersonal(4, Str_A)>>)
FreeBill == JBill(Date_2023_10_09, 0, <<JShared(0)>>)
TwoPersonBill == JBill(Date_2024_03_21, MaxTipPercentage,
                       <<JPersonal(5, Str_B), JPersonal(5, Str_AB),
                         JItem(JNum(4), JStr(Str_Food), JBool(TRUE), JStr(Str_A))>>)
ValidBills == {SharedOnlyBill, PersonalBill, MixedBill, FreeBill, TwoPersonBill}

WithItem(it) == JBill(Date_2024_03_21, 10, <<JShared(1000), it>>)

\* values validateBillInput rejects
InvalidBills ==
  { [SharedOnlyBill EXCEPT !.t = "null"],
    [SharedOnlyBill EXCEPT !.t = "array"],
    [SharedOnlyBill EXCEPT !.has = RequiredFields \ {"items"}],
    [SharedOnlyBill EXCEPT !.date = JNum(20240321)],
    [SharedOnlyBill EXCEPT !.date = JStr(Date_2024_1_05)],
    [SharedOnlyBill EXCEPT !.date = JStr(Date_2024_02_30)],
    [SharedOnlyBill EXCEPT !.date = JStr(Date_1999_12_31)],
    [SharedOnlyBill EXCEPT !.date = JStr(Date_2030_01_01)],
    [SharedOnlyBill EXCEPT !.date = JStr(Date_0999_09_10)],
    [SharedOnlyBill EXCEPT !.location = JNull],
    [SharedOnlyBill EXCEPT !.location = JStr(Str_Blank)],
    [SharedOnlyBill EXCEPT !.location = JStr(Str_Long)],
    [SharedOnlyBill EXCEPT !.location = JStr(Str_Angle)],
    [SharedOnlyBill EXCEPT !.tipPercentage = JStr(<<49, 48>>)],
    [SharedOnlyBill EXCEPT !.tipPercentage = JNum(0 - 1)],
    [SharedOnlyBill EXCEPT !.tipPercentage = JNum(MaxTipPercentage + 1)],
    [SharedOnlyBill EXCEPT !.items = JNotAnArray],
    [SharedOnlyBill EXCEPT !.items = JArray(<<>>)],
    [SharedOnlyBill EXCEPT !.items = JArray([i \in 1..(MaxItemCount + 1) |-> JShared(5)])],
    WithItem(JNotAnItem),
    WithItem(JItem(JStr(<<53>>), JStr(Str_Food), JBool(TRUE), JUndefined)),
    WithItem(JShared(0 - 5)),
    WithItem(JShared(MaxPriceCents + 1)),
    WithItem(JItem(JNum(5), JStr(Str_Blank), JBool(TRUE), JUndefined)),
    WithItem(JItem(JNum(5), JStr(Str_Long), JBool(TRUE), JUndefined)),
    WithItem(JItem(JNum(5), JStr(Str_Food), JUndefined, JStr(Str_A))),
    WithItem(JItem(JNum(5), JStr(Str_Food), JBool(FALSE), JUndefined)),
    WithItem(JPersonal(5, Str_Empty)),
    WithItem(JPersonal(5, Str_Blank)),
    WithItem(JPersonal(5, Str_Long)),
    WithItem(JPersonal(5, Str_Angle)),
    JBill(Date_2024_03_21, 10, <<JPersonal(5, Str_Blank)>>) }

Parsed(data) == [parses |-> TRUE, data |-> data]
Unparsable == [parses |-> FALSE, data |-> JObject({}, JUndefined, JUndefined, JUndefined, JNotAnArray)]

\* a directory entry: whether its name ends in .json, the error code
\* fsPromises.access and readFile meet ("" for none), and its text
File(json, accessCode, readCode, text) ==
  [json |-> json, accessCode |-> accessCode, readCode |-> readCode, text |-> text]

Readable(text) == File(TRUE, "", "", text)

\* the files processFile is run on
SingleFiles ==
  {Readable(Parsed(d)) : d \in ValidBills \cup InvalidBills}
    \cup {Readable(Unparsable)}
    \cup {File(TRUE, c, c, Unparsable) : c \in {"ENOENT", "EACCES", "EIO"}}
    \cup {File(TRUE, "", c, Parsed(SharedOnlyBill)) : c \in {"EISDIR", "EACCES"}}

\* the entries of the directories processDirectory is run on
DirEntries ==
  { Readable(Parsed(SharedOnlyBill)),
    Readable(Parsed(MixedBill)),
    Readable(Parsed([SharedOnlyBill EXCEPT !.items = JArray(<<>>)])),
    Readable(Unparsable),
    File(TRUE, "ENOENT", "ENOENT", Unparsable),
    File(FALSE, "", "", Parsed(PersonalBill)) }

Listings == UNION {[1..n -> DirEntries] : n \in 0..MaxFiles}

NoInput == [date |-> <<>>, location |-> <<>>, tipPercentage |-> 0, items |-> <<>>]

NoResult == [returned |-> FALSE, success |-> FALSE, error |-> "", hasData |-> FALSE,
             data |-> NoOutput]
Success(data) == [returned |-> TRUE, success |-> TRUE, error |-> "", hasData |-> TRUE,
                  data |-> data]
Failure(error) == [returned |-> TRUE, success |-> FALSE, error |-> error.type,
                   hasData |-> FALSE, data |-> NoOutput]

NotWritten == [written |-> FALSE, format |-> "", data |-> NoOutput]

\* the task of jsonFiles.map for files[f], or the body of processFile, up to
\* its first await
NewTask(f) ==
  [file |-> f, pc |-> "access", inputData |-> NoInput, result |-> NoOutput,
   calls |-> <<"readJsonFile">>, ret |-> NoResult]

\* the catch of the task: return { success: false, error }
Failed(task, error) ==
  [task EXCEPT !.pc = "done", !.ret = Failure(handleError(error))]

ProcInit ==
  /\ input = NoInput
  /\ below = NoneBelow
  /\ pc = "idle"
  /\ CoreIdle
  /\ format \in {"json", "text"}
  /\ \/ (mode = "file" /\ \E f \in SingleFiles : files = <<f>>)
     \/ (mode = "directory" /\ files \in Listings)
  /\ ppc = "start"
  /\ jsonFiles = <<>>
  /\ tasks = <<>>
  /\ outFiles = <<>>
  /\ results = <<>>

\* processFile up to the first await of readJsonFile
PF_Start ==
  /\ mode = "file"
  /\ ppc = "start"
  /\ tasks' = <<NewTask(1)>>
  /\ outFiles' = <<NotWritten>>
  /\ ppc' = "awaitTask"
  /\ UNCHANGED <<mode, format, files, jsonFiles, results>>
  /\ UNCHANGED coreVars

\* processDirectory: await fsPromises.access(this.inputPath) settles
PD_AccessInput ==
  /\ mode = "directory"
  /\ ppc = "start"
  /\ \E ok \in BOOLEAN :
        IF ok
          THEN ppc' = "readdir" /\ results' = results
          ELSE /\ ppc' = "done"
               /\ results' = <<Failure(handleError(ProcessorError("FILE_NOT_FOUND")))>>
  /\ UNCHANGED <<mode, format, files, jsonFiles, tasks, outFiles>>
  /\ UNCHANGED coreVars

\* files.filter without its test: every entry of the listing
filterJson_All(listing) == [i \in 1..Len(listing) |-> i]

\* files.filter((file) => file.endsWith(".json")): the indexes in the
\* listing of the entries kept, in the order of the listing
filterJson(listing) ==
  SelectSeq([i \in 1..Len(listing) |-> i], LAMBDA i : listing[i].json)

\* processDirectory: await fsPromises.readdir settles; the .json files are
\* filtered out of the listing
PD_Readdir ==
  /\ mode = "directory"
  /\ ppc = "readdir"
  /\ \E message \in {"", "no such file or directory", "permission denied", "not a directory"} :
        IF message # ""
          THEN /\ ppc' = "done"
               /\ results' = <<Failure(handleError(SystemError(message)))>>
               /\ jsonFiles' = jsonFiles
          ELSE LET found == filterJson(files)
               IN /\ jsonFiles' = found
                  /\ IF Len(found) = 0
                       THEN /\ ppc' = "done"
                            /\ results' =
                                 <<Failure(handleError(ProcessorError("INVALID_FORMAT")))>>
                       ELSE ppc' = "mkdirOutput" /\ results' = results
  /\ UNCHANGED <<mode, format, files, tasks, outFiles>>
  /\ UNCHANGED coreVars

\* processDirectory: await fsPromises.mkdir(this.outputPath) settles
PD_MkdirOutput ==
  /\ mode = "directory"
  /\ ppc = "mkdirOutput"
  /\ \E ok \in BOOLEAN :
        IF ok
          THEN ppc' = "accessOutput" /\ results' = results
          ELSE /\ ppc' = "done"
               /\ results' = <<Failure(handleError(ProcessorError("PERMISSION_DENIED")))>>
  /\ UNCHANGED <<mode, format, files, jsonFiles, tasks, outFiles>>
  /\ UNCHANGED coreVars

\* processDirectory: await fsPromises.access(this.outputPath) settles; then
\* jsonFiles.map starts one task per file, each up to its first await
PD_AccessOutput ==
  /\ mode = "directory"
  /\ ppc = "accessOutput"
  /\ \E ok \in BOOLEAN :
        IF ok
          THEN /\ ppc' = "awaitAll"
               /\ tasks' = [i \in 1..Len(jsonFiles) |-> NewTask(jsonFiles[i])]
               /\ outFiles' = [i \in 1..Len(jsonFiles) |-> NotWritten]
               /\ results' = results
          ELSE /\ ppc' = "done"
               /\ results' = <<Failure(handleError(ProcessorError("PERMISSION_DENIED")))>>
               /\ UNCHANGED <<tasks, outFiles>>
  /\ UNCHANGED <<mode, format, files, jsonFiles>>
  /\ UNCHANGED coreVars

\* readJsonFile: await fsPromises.access(filePath) settles
T_Access(i) ==
  /\ tasks[i].pc = "access"
  /\ LET code == files[tasks[i].file].accessCode
     IN tasks' = [tasks EXCEPT ![i] =
                    IF code = "" THEN [@ EXCEPT !.pc = "readFile"]
                    ELSE Failed(@, readErrorOf(code))]
  /\ UNCHANGED <<mode, format, files, ppc, jsonFiles, outFiles, results>>
  /\ UNCHANGED coreVars

\* what the task does with the content read, up to the first await of
\* writeOutputFile: JSON.parse, validateBillInput, splitBill (rounding: the
\* outcome of splitBill's roundings)
afterRead(task, text, rounding) ==
  LET parsed == parseAndValidate(text)
      called == IF text.parses THEN Append(task.calls, "validateBillInput")
                ELSE task.calls
  IN IF ~parsed.ok THEN Failed([task EXCEPT !.calls = called], parsed.error)
     ELSE [task EXCEPT !.pc = "mkdir",
                       !.inputData = AsBillInput(text.data),
                       !.result = splitBill(AsBillInput(text.data), rounding),
                       !.calls = called \o <<"splitBill", "writeOutputFile">>]

\* the outcomes of the roundings of the task's call of splitBill, if the
\* task calls it
splitBillOutcomes(f) ==
  IF f.readCode = "" /\ parseAndValidate(f.text).ok
    THEN RoundingOutcomes(AsBillInput(f.text.data))
    ELSE {NoneBelow}

\* readJsonFile: await fsPromises.readFile(filePath) settles
T_ReadFile(i) ==
  /\ tasks[i].pc = "readFile"
  /\ LET f == files[tasks[i].file]
     IN \E rounding \in splitBillOutcomes(f) :
          tasks' = [tasks EXCEPT ![i] =
                      IF f.readCode # "" THEN Failed(@, readErrorOf(f.readCode))
                      ELSE afterRead(@, f.text, rounding)]
  /\ UNCHANGED <<mode, format, files, ppc, jsonFiles, outFiles, results>>
  /\ UNCHANGED coreVars

\* writeOutputFile: await fsPromises.mkdir(outputDir) settles
T_Mkdir(i) ==
  /\ tasks[i].pc = "mkdir"
  /\ \E code \in {"", "EACCES", "ENOSPC", "EEXIST"} :
        tasks' = [tasks EXCEPT ![i] =
                    IF code = "" THEN [@ EXCEPT !.pc = "accessOut"]
                    ELSE Failed(@, writeErrorOf(code))]
  /\ UNCHANGED <<mode, format, files, ppc, jsonFiles, outFiles, results>>
  /\ UNCHANGED coreVars

\* writeOutputFile: await fsPromises.access(outputDir, W_OK) settles
T_AccessOut(i) ==
  /\ tasks[i].pc = "accessOut"
  /\ \E ok \in BOOLEAN :
        tasks' = [tasks EXCEPT ![i] =
                    IF ok THEN [@ EXCEPT !.pc = "writeFile"]
                    ELSE Failed(@, ProcessorError("PERMISSION_DENIED"))]
  /\ UNCHANGED <<mode, format, files, ppc, jsonFiles, outFiles, results>>
  /\ UNCHANGED coreVars

\* writeOutputFile: await fsPromises.writeFile settles; the task returns
T_WriteFile(i) ==
  /\ tasks[i].pc = "writeFile"
  /\ \E code \in {"", "EACCES", "ENOSPC", "EIO"} :
        IF code = ""
          THEN /\ outFiles' = [outFiles EXCEPT ![i] =
                                 [written |-> TRUE, format |-> format,
                                  data |-> tasks[i].result]]
               /\ tasks' = [tasks EXCEPT ![i] =
                              [@ EXCEPT !.pc = "done", !.ret = Success(tasks[i].result)]]
          ELSE /\ tasks' = [tasks EXCEPT ![i] = Failed(@, writeErrorOf(code))]
               /\ outFiles' = outFiles
  /\ UNCHANGED <<mode, format, files, ppc, jsonFiles, results>>
  /\ UNCHANGED coreVars

AllDone == \A i \in 1..Len(tasks) : tasks[i].pc = "done"

\* processFile returns the result of its one task
PF_Return ==
  /\ mode = "file"
  /\ ppc = "awaitTask"
  /\ AllDone
  /\ results' = <<tasks[1].ret>>
  /\ ppc' = "done"
  /\ UNCHANGED <<mode, format, files, jsonFiles, tasks, outFiles>>
  /\ UNCHANGED coreVars

\* processDirectory: await Promise.all settles; return results
PD_Resolve ==
  /\ mode = "directory"
  /\ ppc = "awaitAll"
  /\ AllDone
  /\ results' = [i \in 1..Len(tasks) |-> tasks[i].ret]
  /\ ppc' = "done"
  /\ UNCHANGED <<mode, format, files, jsonFiles, tasks, outFiles>>
  /\ UNCHANGED coreVars

ProcNext ==
  \/ PF_Start
  \/ PD_AccessInput
  \/ PD_Readdir
  \/ PD_MkdirOutput
  \/ PD_AccessOutput
  \/ \E i \in 1..Len(tasks) : T_Access(i)
  \/ \E i \in 1..Len(tasks) : T_ReadFile(i)
  \/ \E i \in 1..Len(tasks) : T_Mkdir(i)
  \/ \E i \in 1..Len(tasks) : T_AccessOut(i)
  \/ \E i \in 1..Len(tasks) : T_WriteFile(i)
  \/ PF_Return
  \/ PD_Resolve

ProcSpec == ProcInit /\ [][ProcNext]_vars

(***************************************************************************)
(* Properties of processFile and processDirectory.                         *)
(***************************************************************************)
Called(task, name) == \E k \in 1..Len(task.calls) : task.calls[k] = name

CalledBefore(task, first, second) ==
  \E k, l \in 1..Len(task.calls) :
     k < l /\ task.calls[k] = first /\ task.calls[l] = second

\* the file of the task can be read and parsed, and validateBillInput
\* accepts what it holds
ReadsAndValidates(task) ==
  LET f == files[task.file]
  IN /\ f.accessCode = ""
     /\ f.readCode = ""
     /\ f.text.parses
     /\ validateBillInput(f.text.data) = "ok"

\* C6: an input validateBillInput has accepted has at least one item, each
\* Shared or Personal with a person; scanPersons gives it at least one
\* participant, so calculateItems divides by a count above 0 and splitBill
\* returns a BillOutput with items.
C6_ParticipantsOfValidatedInput ==
  \A i \in 1..Len(tasks) :
     Called(tasks[i], "splitBill") =>
        /\ Len(tasks[i].inputData.items) >= 1
        /\ \A k \in 1..Len(tasks[i].inputData.items) :
              tasks[i].inputData.items[k].isShared
                 \/ tasks[i].inputData.items[k].person # <<>>
        /\ Len(scanPersons(tasks[i].inputData.items)) >= 1
        /\ Len(tasks[i].result.items) = Len(scanPersons(tasks[i].inputData.items))
        /\ tasks[i].ret.hasData => Len(tasks[i].ret.data.items) >= 1

\* reached: a validated bill of Shared items only, returned with the two
\* participants of the fallback
C6_Witness ==
  \E i \in 1..Len(tasks) :
     /\ tasks[i].ret.success
     /\ ~HasPersonal(tasks[i].inputData.items)
     /\ Len(tasks[i].ret.data.items) = 2

\* C7: a task calls splitBill only after readJsonFile has parsed the file
\* and validateBillInput has accepted it; when reading, parsing or validation
\* fails it calls neither splitBill nor writeOutputFile, writes nothing, and
\* returns success = false without data.
C7_SplitBillOnlyAfterValidation ==
  \A i \in 1..Len(tasks) :
     /\ Called(tasks[i], "splitBill") =>
           /\ ReadsAndValidates(tasks[i])
           /\ CalledBefore(tasks[i], "readJsonFile", "splitBill")
           /\ CalledBefore(tasks[i], "validateBillInput", "splitBill")
           /\ tasks[i].inputData = AsBillInput(files[tasks[i].file].text.data)
     /\ (~ReadsAndValidates(tasks[i])) =>
           /\ ~Called(tasks[i], "splitBill")
           /\ ~Called(tasks[i], "writeOutputFile")
           /\ ~outFiles[i].written
           /\ tasks[i].pc \in {"access", "readFile", "done"}
           /\ tasks[i].pc = "done" =>
                 (tasks[i].ret.returned /\ ~tasks[i].ret.success /\ ~tasks[i].ret.hasData)
     /\ (ppc = "done" /\ ~ReadsAndValidates(tasks[i])) =>
           (~results[i].success /\ ~results[i].hasData)

\* reached: processDirectory has returned, one file rejected by
\* validateBillInput and another split and written
C7_Witness ==
  /\ mode = "directory"
  /\ ppc = "done"
  /\ \E i, j \in 1..Len(tasks) :
        /\ files[tasks[i].file].text.parses
        /\ validateBillInput(files[tasks[i].file].text.data) # "ok"
        /\ results[i].error = "INVALID_FORMAT"
        /\ results[j].success
        /\ outFiles[j].written

\* processDirectory has started its tasks and returned their results
Resolved == mode = "directory" /\ ppc = "done" /\ Len(tasks) > 0

JsonIndexes == {k \in 1..Len(files) : files[k].json}

\* the result at index i is that of a run on file f alone
IsResultOf(result, f) ==
  /\ result.returned
  /\ f.accessCode # "" =>
        (~result.success /\ result.error = readErrorOf(f.accessCode).type)
  /\ (f.accessCode = "" /\ f.readCode # "") =>
        (~result.success /\ result.error = readErrorOf(f.readCode).type)
  /\ (f.accessCode = "" /\ f.readCode = "" /\ ~parseAndValidate(f.text).ok) =>
        (~result.success /\ result.error = parseAndValidate(f.text).error.type)
  /\ result.success =>
        /\ f.accessCode = "" /\ f.readCode = "" /\ parseAndValidate(f.text).ok
        /\ result.hasData
        /\ \E rounding \in RoundingOutcomes(AsBillInput(f.text.data)) :
              result.data = splitBill(AsBillInput(f.text.data), rounding)
  /\ ~result.success => ~result.hasData

\* C13 as stated: once the directory checks pass, processDirectory returns
\* one ProcessResult per .json file, the result of a file standing at the
\* index the file has in the directory listing.
C13_ResultAtListingIndex ==
  Resolved =>
     /\ Len(results) = Cardinality(JsonIndexes)
     /\ \A i \in 1..Len(results) : tasks[i].file = i /\ results[i] = tasks[i].ret

\* C13 amended: once the directory checks pass, processDirectory returns
\* one ProcessResult per .json file, in the order of the directory listing
\* with the other entries left out, under every interleaving of the tasks;
\* each result is that of its own file, so a file that fails has
\* success = false in its own entry and changes no other entry.
C13_ResultPerJsonFile ==
  Resolved =>
     /\ Len(results) = Cardinality(JsonIndexes)
     /\ Len(tasks) = Len(results)
     /\ {tasks[i].file : i \in 1..Len(tasks)} = JsonIndexes
     /\ \A i, j \in 1..Len(tasks) : i < j => tasks[i].file < tasks[j].file
     /\ \A i \in 1..Len(results) :
           /\ results[i] = tasks[i].ret
           /\ IsResultOf(results[i], files[tasks[i].file])
           /\ results[i].success => outFiles[i].written

\* reached: two .json files, the first rejected by validateBillInput and
\* the second, a valid bill, split and written
C13_Witness ==
  /\ Resolved
  /\ Len(results) = 2
  /\ ~results[1].success
  /\ results[1].error = "INVALID_FORMAT"
  /\ results[2].success
  /\ results[2].data.items # <<>>

====
